---- MODULE Spec2Model ----
(***************************************************************************)
(* Model of the scoring and recommendation engine of app.py:               *)
(* compute_readiness_score, suggest_next_role_and_actions,                 *)
(* build_recommendations and the two Streamlit caches in front of the      *)
(* language model (load_llm, generate_llm_plan_cached).                    *)
(*                                                                         *)
(* Numbers.  A numeric cell of the roster holds an integer n that stands   *)
(* for the number n / Scale.  A readiness score is held in tenths (the     *)
(* code rounds it to one decimal).  Arithmetic is exact rational           *)
(* arithmetic; the binary floating point of the code differs from it only  *)
(* in where a value that lies exactly between two tenths is rounded to,    *)
(* so Round1 returns both neighbours there.                                *)
(*                                                                         *)
(* Text is a TLA+ string; lower(), strip() and the `in` substring test     *)
(* are computed character by character.                                    *)
(***************************************************************************)
EXTENDS Integers, Sequences, FiniteSets, TLC

VARIABLES
    df_raw,           \* the roster read from the CSV: a sequence of rows
    industry_choice,  \* the sidebar's "Select Industry" value
    pc,               \* position of the script
    ReadinessScore,   \* df["ReadinessScore"], one cell per row
    next_roles,       \* build_recommendations' local list
    rule_actions,     \* build_recommendations' local list
    llm_plans,        \* build_recommendations' local list
    llm_resource,     \* st.cache_resource entry of load_llm
    plan_cache,       \* st.cache_data entries of generate_llm_plan_cached
    llm_calls,        \* log of the runs of generate_llm_plan_cached's body
    df,               \* what build_recommendations returned
    runs,             \* script runs started in this process
    ret               \* value returned by a direct call of a pure function

vars == <<df_raw, industry_choice, pc, ReadinessScore, next_roles, rule_actions,
          llm_plans, llm_resource, plan_cache, llm_calls, df, runs, ret>>

\* ------------------------------------------------------------------ bounds

\* Resolution of the numeric inputs: a cell n stands for n / Scale.
Scale == 4
\* Largest YearsExperience (in years) of an input; the cap of the code is 10.
MaxYears == 11
\* Scores drawn around each threshold, in tenths, for the direct calls of
\* suggest_next_role_and_actions.
ScoreDelta == 1
\* Longest roster.
MaxRoster == 2
\* Script runs in one process.
MaxRuns == 2

\* ------------------------------------------------------------------- cells

Num(n) == [t |-> "num", n |-> n, s |-> ""]
\* An empty CSV cell (pandas reads it as NaN).
NaN == [t |-> "nan", n |-> 0, s |-> ""]
\* A text cell; in a numeric column, a cell that is no number.
Str(s) == [t |-> "str", n |-> 0, s |-> s]
\* What row.get(key) returns for a column the roster does not have.
None == [t |-> "none", n |-> 0, s |-> ""]
\* The TypeError that min(str, int) and float * str raise.
TypeError == [t |-> "TypeError", n |-> 0, s |-> ""]

\* row.get(key, default): the row's cell, the default for an absent column.
Get(row, key, default) == IF key \in DOMAIN row THEN row[key] ELSE default

\* --------------------------------------------------------------------- text

UpperChars == "ABCDEFGHIJKLMNOPQRSTUVWXYZ"
LowerChars == "abcdefghijklmnopqrstuvwxyz"

CharAt(s, i) == SubSeq(s, i, i)

\* The lower-case letter of each upper-case letter.
LowerOf ==
    [c \in {CharAt(UpperChars, k) : k \in 1..Len(UpperChars)} |->
        CharAt(LowerChars, CHOOSE k \in 1..Len(UpperChars) : CharAt(UpperChars, k) = c)]

LowerChar(c) == IF c \in DOMAIN LowerOf THEN LowerOf[c] ELSE c

RECURSIVE PyLower(_)
\* str.lower()
PyLower(s) == IF s = "" THEN "" ELSE LowerChar(CharAt(s, 1)) \o PyLower(Tail(s))

IsSpace(c) == c \in {" ", "\t", "\n", "\r"}

RECURSIVE LStrip(_)
LStrip(s) == IF s # "" /\ IsSpace(CharAt(s, 1)) THEN LStrip(Tail(s)) ELSE s

RECURSIVE RStrip(_)
RStrip(s) ==
    IF s # "" /\ IsSpace(CharAt(s, Len(s))) THEN RStrip(SubSeq(s, 1, Len(s) - 1)) ELSE s

\* str.strip()
PyStrip(s) == RStrip(LStrip(s))

\* k in s, for strings
Contains(s, k) == \E i \in 1..(Len(s) - Len(k) + 1) : SubSeq(s, i, i + Len(k) - 1) = k

\* str(x) of a cell; the text columns of the inputs hold text or are empty.
PyStr(c) ==
    CASE c.t = "str" -> c.s
      [] c.t = "nan" -> "nan"
      [] c.t = "none" -> "None"

\* ---------------------------------------------------------------- rationals

RECURSIVE GCD(_, _)
GCD(a, b) == IF b = 0 THEN a ELSE GCD(b, a % b)

Abs(a) == IF a < 0 THEN 0 - a ELSE a

\* The rational p / q (q > 0) in lowest terms, as <<p, q>>.
Frac(p, q) == LET g == GCD(Abs(p), q) IN <<p \div g, q \div g>>

RAdd(a, b) == Frac(a[1] * b[2] + b[1] * a[2], a[2] * b[2])
RMul(a, b) == Frac(a[1] * b[1], a[2] * b[2])
RDiv(a, b) == Frac(a[1] * b[2], a[2] * b[1])
RLess(a, b) == a[1] * b[2] < b[1] * a[2]
\* Python's min(a, b): b if b < a, else a.
PyMin(a, b) == IF RLess(b, a) THEN b ELSE a

\* The number a numeric cell stands for.
Val(c) == Frac(c.n, Scale)

\* round(x, 1), in tenths.  The float nearest to a value exactly between two
\* tenths lies on either side of it, so both neighbours are possible there.
Round1(x) ==
    LET p == x[1] * 10
        f == p \div x[2]
        r == p % x[2]
    IN  IF 2 * r < x[2] THEN {f}
        ELSE IF 2 * r > x[2] THEN {f + 1}
        ELSE {f, f + 1}

\* ------------------------------------------------- compute_readiness_score

IsYes(c) == PyLower(PyStrip(PyStr(c))) \in {"yes", "y"}

\* The leadership sub-score without the strip().
LeadershipSubScoreNoStrip(row) ==
    IF PyLower(PyStr(Get(row, "LeadershipInterest", Str("")))) \in {"yes", "y"} THEN 5 ELSE 2

\* 5 if str(row.get("LeadershipInterest", "")).strip().lower() in ["yes", "y"] else 2
LeadershipSubScore(row) == IF IsYes(Get(row, "LeadershipInterest", Str(""))) THEN 5 ELSE 2

\* The years sub-score without the cap at 10 years.
YearsNormUncapped(y) == RMul(RDiv(Val(y), <<10, 1>>), <<5, 1>>)

\* min(row.get("YearsExperience", 0), 10) / 10 * 5
YearsNorm(y) == RMul(RDiv(PyMin(Val(y), <<10, 1>>), <<10, 1>>), <<5, 1>>)

\* 0.3 * years_norm + 0.2 * tech + 0.2 * soft + 0.2 * perf + 0.1 * leadership
Score5(years_norm, tech, soft, perf, leadership) ==
    RAdd(RAdd(RAdd(RAdd(RMul(<<3, 10>>, years_norm),
                        RMul(<<2, 10>>, tech)),
                   RMul(<<2, 10>>, soft)),
              RMul(<<2, 10>>, perf)),
         RMul(<<1, 10>>, <<leadership, 1>>))

\* The values compute_readiness_score(row) can return: a score in tenths, NaN
\* when a numeric cell is empty, or the TypeError raised on a cell that holds
\* text.
compute_readiness_score(row) ==
    LET years == Get(row, "YearsExperience", Num(0))
        tech == Get(row, "TechSkillRating", Num(0))
        soft == Get(row, "SoftSkillRating", Num(0))
        perf == Get(row, "PerformanceRating", Num(0))
        cells == {years, tech, soft, perf}
    IN  IF \E c \in cells : c.t = "str" THEN {TypeError}
        ELSE IF \E c \in cells : c.t = "nan" THEN {NaN}
        ELSE LET score_5 == Score5(YearsNorm(years), Val(tech), Val(soft), Val(perf),
                                   LeadershipSubScore(row))
             IN  {Num(v) : v \in Round1(RMul(RDiv(score_5, <<5, 1>>), <<100, 1>>))}

\* ------------------------------------------- suggest_next_role_and_actions

\* The thresholds of the score bands.
SeniorThreshold == 80
MidThreshold == 60

\* The senior band entered only above 80.
AtLeastSeniorStrict(score) == score.t = "num" /\ score.n > SeniorThreshold * 10

\* score >= 80; a comparison with NaN is false.
AtLeastSenior(score) == score.t = "num" /\ score.n >= SeniorThreshold * 10
\* 60 <= score < 80
InMidBand(score) ==
    score.t = "num" /\ MidThreshold * 10 <= score.n /\ score.n < SeniorThreshold * 10

\* str(row.get("LeadershipInterest", "")).strip().lower() in ["yes", "y"]
LeadershipFlag(row) == IsYes(Get(row, "LeadershipInterest", Str("")))

\* row.get('CurrentRole', 'Professional') inside the f-string
CurrentRoleText(row) == PyStr(Get(row, "CurrentRole", Str("Professional")))

NextRole(row) ==
    LET score == row["ReadinessScore"]
    IN  IF AtLeastSenior(score)
        THEN IF LeadershipFlag(row)
             THEN "Team Lead / Scrum Master / SAFe Team Coach"
             ELSE "Senior " \o CurrentRoleText(row)
        ELSE IF InMidBand(score)
        THEN "Mid-level " \o CurrentRoleText(row)
        ELSE "Upskill & Consolidate Current Role"

\* Generic banded actions (the en dash of "1-2" is written as a hyphen).
BandActions(score) ==
    IF AtLeastSenior(score)
    THEN << "Take stretch assignments and mentor junior team members.",
            "Lead at least one initiative end-to-end this quarter.",
            "Show decision-making in cross-team topics." >>
    ELSE IF InMidBand(score)
    THEN << "Strengthen 1-2 core competencies to reach 4+/5.",
            "Request ownership of a module or feature area." >>
    ELSE << "Focus on delivery consistency and quality.",
            "Pair with a mentor and set up regular feedback sessions." >>

\* The domain-specific groups, in the order of their if statements.
DomainRules ==
    << [keys |-> {"data", "analytics"},
        actions |-> << "Pursue SQL, Power BI, or Tableau certifications.",
                       "Deliver at least one analytics dashboard or report.",
                       "Practice data storytelling for business stakeholders." >>],
       [keys |-> {"cloud", "aws", "azure", "gcp"},
        actions |-> << "Target an associate-level cloud certification.",
                       "Learn CI/CD and infrastructure fundamentals.",
                       "Contribute to cloud migration or automation tasks." >>],
       [keys |-> {"ai", "ml", "machine learning"},
        actions |-> << "Complete an applied ML course and build 1-2 small projects.",
                       "Experiment with LLMs to automate team workflows.",
                       "Understand basic MLOps concepts." >>],
       [keys |-> {"product", "ba", "business analysis"},
        actions |-> << "Practice writing crisp user stories and acceptance criteria.",
                       "Shadow product discovery or customer calls.",
                       "Apply prioritisation frameworks like WSJF or RICE." >>],
       [keys |-> {"qa", "test"},
        actions |-> << "Learn an automation framework (Selenium, Cypress, Playwright).",
                       "Own regression suites and test strategy for a module.",
                       "Strengthen API testing skills." >>],
       [keys |-> {"architecture", "design"},
        actions |-> << "Study system design patterns and trade-offs.",
                       "Lead technical design for at least one feature.",
                       "Deepen understanding of non-functional requirements." >>],
       [keys |-> {"support", "customer"},
        actions |-> << "Deepen product & troubleshooting knowledge.",
                       "Contribute to knowledge base and runbooks.",
                       "Participate in customer feedback analysis." >>] >>

\* if leadership: ...
LeadershipActions ==
    << "Facilitate standups or retrospectives under guidance.",
       "Take responsibility for risk and dependency updates." >>

\* if any(k in domain for k in ["agile", "scrum", "safe", "kanban", "lean"]): ...
AgileRule ==
    [keys |-> {"agile", "scrum", "safe", "kanban", "lean"},
     actions |-> << "Participate actively in PI planning preparation.",
                    "Improve backlog refinement and estimation facilitation.",
                    "Track team health metrics (velocity, WIP, predictability).",
                    "Consider SAFe Scrum Master or POPM certification." >>]

\* The goal-specific groups, in the order of their if statements.
GoalRules ==
    << [keys |-> {"manager", "lead"},
        actions |-> << "Invest in stakeholder communication and conflict management.",
                       "Lead at least one improvement initiative for the team." >>],
       [keys |-> {"architect"},
        actions |-> << "Own design for complex features or components.",
                       "Mentor others on design principles." >>],
       [keys |-> {"scrum", "agile"},
        actions |-> << "Run retrospectives end-to-end with clear outcomes.",
                       "Drive actions from retros back into the backlog." >>] >>

\* The branches of the industry if/elif chain, in order.
IndustryRules ==
    << [name |-> "Technology",
        actions |-> << "Stay current with engineering best practices and new tools.",
                       "Increase exposure to system design and scalability topics." >>],
       [name |-> "Consulting",
        actions |-> << "Shape problem statements and hypotheses for clients.",
                       "Practice slide-making and structured storylines." >>],
       [name |-> "Banking / FinTech",
        actions |-> << "Understand key regulatory concepts (AML, KYC, PCI-DSS).",
                       "Strengthen domain skills in payments, lending, or risk." >>],
       [name |-> "Healthcare",
        actions |-> << "Learn key healthcare processes and data privacy needs.",
                       "Understand EHR/EMR workflows and quality of care metrics." >>],
       [name |-> "Retail / E-commerce",
        actions |-> << "Use customer analytics to inform feature ideas.",
                       "Understand funnel metrics, A/B testing, and experimentation." >>],
       [name |-> "Manufacturing",
        actions |-> << "Learn basics of supply chain and production workflows.",
                       "Identify automation opportunities in existing processes." >>],
       [name |-> "Education",
        actions |-> << "Apply learning design principles to any internal training.",
                       "Help create or improve onboarding materials." >>],
       [name |-> "Public Sector/Government",
        actions |-> << "Understand procurement and governance processes.",
                       "Document decisions clearly for audit and traceability." >>] >>

\* A keyword group fires when one of its keywords is a substring of the text.
Fires(rule, text) == \E k \in rule.keys : Contains(text, k)

RECURSIVE KeywordActions(_, _)
\* The actions of the groups of `rules` that fire on `text`, in rule order.
KeywordActions(rules, text) ==
    IF rules = <<>> THEN <<>>
    ELSE (IF Fires(Head(rules), text) THEN Head(rules).actions ELSE <<>>)
         \o KeywordActions(Tail(rules), text)

\* The branches whose name equals industry_choice.
MatchingBranches(industry) ==
    {k \in 1..Len(IndustryRules) : IndustryRules[k].name = industry}

\* The chain without its last branch.
IndustryActionsWithoutLast(industry) ==
    LET m == MatchingBranches(industry) \ {Len(IndustryRules)}
    IN  IF m = {} THEN <<>>
        ELSE IndustryRules[CHOOSE k \in m : \A j \in m : k <= j].actions

\* if / elif: the first branch that matches, nothing when none does.
IndustryActions(industry) ==
    LET m == MatchingBranches(industry)
    IN  IF m = {} THEN <<>>
        ELSE IndustryRules[CHOOSE k \in m : \A j \in m : k <= j].actions

\* The extends with the leadership block moved in front of the domain blocks.
ExtendedActionsLeadershipFirst(row, industry) ==
    LET domain == PyLower(PyStr(Get(row, "DomainInterest", Str(""))))
        goal == PyLower(PyStr(Get(row, "CareerGoal", Str(""))))
    IN  BandActions(row["ReadinessScore"])
        \o (IF LeadershipFlag(row) THEN LeadershipActions ELSE <<>>)
        \o KeywordActions(DomainRules, domain)
        \o KeywordActions(<<AgileRule>>, domain)
        \o KeywordActions(GoalRules, goal)
        \o IndustryActions(industry)

\* The list `actions` before line 342: every extend, in program order.
ExtendedActions(row, industry) ==
    LET domain == PyLower(PyStr(Get(row, "DomainInterest", Str(""))))
        goal == PyLower(PyStr(Get(row, "CareerGoal", Str(""))))
    IN  BandActions(row["ReadinessScore"])
        \o KeywordActions(DomainRules, domain)
        \o (IF LeadershipFlag(row) THEN LeadershipActions ELSE <<>>)
        \o KeywordActions(<<AgileRule>>, domain)
        \o KeywordActions(GoalRules, goal)
        \o IndustryActions(industry)

RECURSIVE SetOrder(_)
\* list(set(actions)): each string once, in an order of the set's own (here
\* the reverse of the first occurrences).
SetOrder(xs) ==
    IF xs = <<>> THEN <<>>
    ELSE LET front == SetOrder(SubSeq(xs, 1, Len(xs) - 1))
             last == xs[Len(xs)]
         IN  IF \E i \in 1..Len(front) : front[i] = last
             THEN front
             ELSE <<last>> \o front

RECURSIVE DictFromKeys(_)
\* list(dict.fromkeys(actions)): each string once, at its first occurrence.
DictFromKeys(xs) ==
    IF xs = <<>> THEN <<>>
    ELSE LET front == DictFromKeys(SubSeq(xs, 1, Len(xs) - 1))
             last == xs[Len(xs)]
         IN  IF \E i \in 1..Len(front) : front[i] = last
             THEN front
             ELSE Append(front, last)

suggest_next_role_and_actions(row, industry) ==
    [next_role |-> NextRole(row),
     actions |-> DictFromKeys(ExtendedActions(row, industry))]

\* The options of the "Select Industry" selectbox.
IndustryOptions ==
    << "Technology", "Consulting", "Banking / FinTech", "Healthcare",
       "Retail / E-commerce", "Manufacturing", "Education",
       "Public Sector/Government" >>

\* ---------------------------------------------------- the language model

\* The text generate_llm_plan_cached returns when load_llm() returned None.
LlmNotAvailable ==
    "LLM not available in this environment. Using rule-based recommendations only."

\* Texts the model may generate for a prompt (out[0]["generated_text"]).
GeneratedTexts == {" Strengths: delivery. 30-60-90: mentor, lead, own.\n"}

\* Messages of the exceptions llm(prompt, ...) may raise.
LlmExceptions == {"index out of range in self", "out of memory"}

\* f"{row.get(column)}": the cell as the f-string shows it.
PyFormat(c) == IF c.t = "num" THEN c ELSE Str(PyStr(c))

\* The f-string profile_text: its eleven fields as they are formatted.
ProfileText(row, next_role) ==
    [Name |-> PyFormat(Get(row, "Name", None)),
     CurrentRole |-> PyFormat(Get(row, "CurrentRole", None)),
     YearsExperience |-> PyFormat(Get(row, "YearsExperience", None)),
     TechSkillRating |-> PyFormat(Get(row, "TechSkillRating", None)),
     SoftSkillRating |-> PyFormat(Get(row, "SoftSkillRating", None)),
     PerformanceRating |-> PyFormat(Get(row, "PerformanceRating", None)),
     LeadershipInterest |-> PyFormat(Get(row, "LeadershipInterest", None)),
     DomainInterest |-> PyFormat(Get(row, "DomainInterest", None)),
     CareerGoal |-> PyFormat(Get(row, "CareerGoal", None)),
     ReadinessScore |-> PyFormat(Get(row, "ReadinessScore", None)),
     next_role |-> next_role]

\* A key made of the profile text alone.
CacheKeyProfileOnly(profile_text, industry) == <<profile_text, "">>

\* The key st.cache_data files a call of generate_llm_plan_cached under.
CacheKey(profile_text, industry) == <<profile_text, industry>>

Cached(cache, key) == \E e \in cache : e.key = key
CacheLookup(cache, key) == (CHOOSE e \in cache : e.key = key).text

\* What llm(prompt, ...) does: it returns a generated text or raises.
LlmOutcomes ==
    {[kind |-> "generated", text |-> g] : g \in GeneratedTexts}
    \cup {[kind |-> "raised", text |-> e] : e \in LlmExceptions}

\* load_llm() returned None: the model is not called.
NoCall == [kind |-> "unavailable", text |-> ""]

\* The body with an except that drops the exception's message.
PlanTextWithoutMessage(outcome) ==
    CASE outcome.kind = "unavailable" -> LlmNotAvailable
      [] outcome.kind = "generated" -> PyStrip(outcome.text)
      [] outcome.kind = "raised" -> "LLM generation failed"

\* What generate_llm_plan_cached's body returns: the fixed text without a
\* model, else the stripped generated text, or the failure text of the except.
PlanText(outcome) ==
    CASE outcome.kind = "unavailable" -> LlmNotAvailable
      [] outcome.kind = "generated" -> PyStrip(outcome.text)
      [] outcome.kind = "raised" -> "LLM generation failed: " \o outcome.text

\* load_llm() under st.cache_resource: the first call builds the pipeline or,
\* when that fails, returns None; either result is kept for the process.
LoadLlm(resource) == IF resource = "unloaded" THEN {"pipeline", "none"} ELSE {resource}

\* ------------------------------------------------- build_recommendations

\* A row of df: the input row with its ReadinessScore.
WithScore(row, score) ==
    [k \in DOMAIN row \cup {"ReadinessScore"} |->
        IF k = "ReadinessScore" THEN score ELSE row[k]]

\* The row of df at position i.
ScoredRow(i) == WithScore(df_raw[i], ReadinessScore[i])

RECURSIVE BulletJoin(_)
\* "\n* ".join(actions), with the bullet written as *
BulletJoin(actions) ==
    IF actions = <<>> THEN ""
    ELSE IF Len(actions) = 1 THEN actions[1]
    ELSE actions[1] \o "\n* " \o BulletJoin(Tail(actions))

\* list.insert(0, x)
ListPrepend(list, x) == <<x>> \o list

\* list.append
ListAppend(list, x) == Append(list, x)

\* The vectors df.apply(compute_readiness_score, axis=1) can produce.
ApplyScores(rows) ==
    LET possible == UNION {compute_readiness_score(rows[i]) : i \in 1..Len(rows)}
    IN  {ss \in [1..Len(rows) -> possible] :
            \A i \in 1..Len(rows) : ss[i] \in compute_readiness_score(rows[i])}

\* Lines 347-352: df.copy(), the ReadinessScore column, the three empty lists.
\* A TypeError of compute_readiness_score leaves build_recommendations.
BuildScore ==
    /\ pc = "start"
    /\ \E ss \in ApplyScores(df_raw) :
          IF \E i \in 1..Len(df_raw) : ss[i] = TypeError
          THEN /\ pc' = "raised"
               /\ UNCHANGED ReadinessScore
          ELSE /\ pc' = "loop"
               /\ ReadinessScore' = ss
    /\ next_roles' = <<>>
    /\ rule_actions' = <<>>
    /\ llm_plans' = <<>>
    /\ UNCHANGED <<df_raw, industry_choice, llm_resource, plan_cache, llm_calls, df,
                   runs, ret>>

\* Lines 354-374: one iteration of the loop, generate_llm_plan_cached included.
\* On a cache hit the stored text is returned and the body does not run.
BuildRow ==
    /\ pc = "loop"
    /\ Len(next_roles) < Len(df_raw)
    /\ LET member == Len(next_roles) + 1
           row == ScoredRow(member)
           sug == suggest_next_role_and_actions(row, industry_choice)
           profile_text == ProfileText(row, sug.next_role)
           key == CacheKey(profile_text, industry_choice)
           entry == [profile_text |-> profile_text, industry |-> industry_choice,
                     member |-> member, run |-> runs]
       IN  /\ next_roles' = ListAppend(next_roles, sug.next_role)
           /\ rule_actions' = ListAppend(rule_actions, "* " \o BulletJoin(sug.actions))
           /\ IF Cached(plan_cache, key)
              THEN /\ llm_plans' = ListAppend(llm_plans, CacheLookup(plan_cache, key))
                   /\ UNCHANGED <<llm_resource, plan_cache, llm_calls>>
              ELSE \E llm \in LoadLlm(llm_resource) :
                      /\ llm_resource' = llm
                      /\ \E o \in (IF llm = "none" THEN {NoCall} ELSE LlmOutcomes) :
                            /\ llm_plans' = ListAppend(llm_plans, PlanText(o))
                            /\ plan_cache' = plan_cache
                                   \cup {[key |-> key, text |-> PlanText(o)]}
                            /\ llm_calls' = Append(llm_calls,
                                                   entry @@ [llm |-> llm, outcome |-> o])
    /\ UNCHANGED <<df_raw, industry_choice, pc, ReadinessScore, df, runs, ret>>

\* Lines 376-379: the three new columns, and the return.
BuildReturn ==
    /\ pc = "loop"
    /\ Len(next_roles) = Len(df_raw)
    /\ df' = [i \in 1..Len(df_raw) |->
                 [row |-> df_raw[i],
                  ReadinessScore |-> ReadinessScore[i],
                  SuggestedNextRole |-> next_roles[i],
                  RecommendedActions |-> rule_actions[i],
                  LLMPlan |-> llm_plans[i]]]
    /\ pc' = "done"
    /\ UNCHANGED <<df_raw, industry_choice, ReadinessScore, next_roles, rule_actions,
                   llm_plans, llm_resource, plan_cache, llm_calls, runs, ret>>

\* The industries selected in the runs of the whole script: the first two
\* options of the selectbox.
OfferedIndustries == {IndustryOptions[1], IndustryOptions[2]}

\* A widget changes and Streamlit runs the script again on the same upload:
\* the two caches live on, everything else starts afresh.
Rerun ==
    /\ pc \in {"done", "raised"}
    /\ runs < MaxRuns
    /\ \E ic \in OfferedIndustries : industry_choice' = ic
    /\ pc' = "start"
    /\ runs' = runs + 1
    /\ ReadinessScore' = <<>>
    /\ next_roles' = <<>>
    /\ rule_actions' = <<>>
    /\ llm_plans' = <<>>
    /\ df' = <<>>
    /\ UNCHANGED <<df_raw, llm_resource, plan_cache, llm_calls, ret>>

\* ------------------------------------------------------------------ rosters

Columns ==
    {"Name", "CurrentRole", "YearsExperience", "TechSkillRating", "SoftSkillRating",
     "PerformanceRating", "LeadershipInterest", "DomainInterest", "CareerGoal"}

NumericColumns ==
    {"YearsExperience", "TechSkillRating", "SoftSkillRating", "PerformanceRating"}

\* Largest rating of the nominal range.
RatingMax == 5

Member(name, role, years, tech, soft, perf, leadership, domain, goal) ==
    [Name |-> name, CurrentRole |-> role, YearsExperience |-> years,
     TechSkillRating |-> tech, SoftSkillRating |-> soft, PerformanceRating |-> perf,
     LeadershipInterest |-> leadership, DomainInterest |-> domain, CareerGoal |-> goal]

\* A number of whole units.
Whole(k) == Num(k * Scale)

\* The members the rosters are made of: a well-formed one, one with an empty
\* rating cell, one with a rating that is no number.
Members ==
    { Member(Str("Asha"), Str("Data Analyst"), Whole(10), Whole(5), Whole(5), Whole(5),
             Str("Yes"), Str("Data Analytics, Agile"), Str("Team Lead")),
      Member(Str("Ben"), Str("Developer"), Whole(3), NaN, Whole(4), Whole(3),
             Str("No"), Str("Cloud"), Str("Architect")),
      Member(Str("Dev"), Str("Analyst"), Whole(8), Whole(4), Whole(4), Str("n/a"),
             Str("y"), Str("Product"), Str("Manager")) }

\* Column sets a CSV may lack.
MissingColumnSets == {{}, {"TechSkillRating", "CurrentRole"}}

Without(row, missing) == [k \in DOMAIN row \ missing |-> row[k]]

\* read_csv types a column as a whole: with one cell that is no number, every
\* cell of the column that is not empty is text.
Readable(rows) ==
    \A c \in NumericColumns, i, j \in 1..Len(rows) :
        (c \in DOMAIN rows[i] /\ rows[i][c].t = "str") => rows[j][c].t # "num"

Rosters ==
    {rows \in UNION {[1..n -> {Without(m, missing) : m \in Members}] : n \in 0..MaxRoster,
                                                          missing \in MissingColumnSets} :
        Readable(rows)}

\* ------------------------------------------------------- the whole script

Idle ==
    /\ ReadinessScore = <<>>
    /\ next_roles = <<>>
    /\ rule_actions = <<>>
    /\ llm_plans = <<>>
    /\ llm_resource = "unloaded"
    /\ plan_cache = {}
    /\ llm_calls = <<>>
    /\ df = <<>>
    /\ ret = None

\* The first run of the script: a roster is read, an industry is selected.
Init ==
    /\ df_raw \in Rosters
    /\ industry_choice \in OfferedIndustries
    /\ pc = "start"
    /\ runs = 1
    /\ Idle

Next == BuildScore \/ BuildRow \/ BuildReturn \/ Rerun

Spec == Init /\ [][Next]_vars

\* ------------------------------------ compute_readiness_score, called alone

\* The rating steps: every multiple of 1 / Scale from 0 to 5.
FineRatings == 0..(RatingMax * Scale)
\* The whole ratings 0, 1, ..., 5.
WholeRatings == {r * Scale : r \in 0..RatingMax}

ScoreLeadershipTexts == {"Yes", " Y ", "No", "yes please"}

\* The valid profiles: years from 0 to MaxYears, ratings from 0 to 5.
InitScore ==
    /\ \E years \in 0..(MaxYears * Scale), tech \in FineRatings,
          soft \in WholeRatings, perf \in WholeRatings, li \in ScoreLeadershipTexts :
          df_raw = << Member(Str("Asha"), Str("Data Analyst"), Num(years), Num(tech),
                             Num(soft), Num(perf), Str(li), Str("Cloud"), Str("")) >>
    /\ industry_choice = IndustryOptions[1]
    /\ pc = "call_score"
    /\ runs = 1
    /\ Idle

ScoreCall ==
    /\ pc = "call_score"
    /\ \E v \in compute_readiness_score(df_raw[1]) : ret' = v
    /\ pc' = "scored"
    /\ UNCHANGED <<df_raw, industry_choice, ReadinessScore, next_roles, rule_actions,
                   llm_plans, llm_resource, plan_cache, llm_calls, df, runs>>

SpecScore == InitScore /\ [][ScoreCall]_vars

\* ------------------------------ suggest_next_role_and_actions, called alone

\* Scores in tenths: the ends of the range, 85.0, and those around 60 and 80.
ScoreSamples ==
    {0, 850, 1000}
    \cup ((MidThreshold * 10 - ScoreDelta)..(MidThreshold * 10 + ScoreDelta))
    \cup ((SeniorThreshold * 10 - ScoreDelta)..(SeniorThreshold * 10 + ScoreDelta))

DomainTexts ==
    {"", "Data Analytics, Agile", "Cloud (AWS)", "AI / ML", "Product, BA",
     "QA and Test Automation", "Architecture & Design", "Customer Support",
     "Database maintenance", "Kanban, Lean"}

GoalTexts == {"", "Solution Architect", "Scrum Master", "Team Lead"}

LeadershipCells == {Str("Yes"), Str(" y "), Str("No")}

\* CurrentRole: a text, an empty cell, or no such column.
RoleVariants ==
    {<<Str("Data Analyst"), {}>>, <<NaN, {}>>, <<Str("Data Analyst"), {"CurrentRole"}>>}

InitRules ==
    /\ \E score \in {Num(v) : v \in ScoreSamples} \cup {NaN},
          domain \in DomainTexts, goal \in GoalTexts, li \in LeadershipCells,
          role \in RoleVariants :
          /\ df_raw = << Without(Member(Str("Asha"), role[1], Whole(10), Whole(5),
                                        Whole(5), Whole(5), li, Str(domain), Str(goal)),
                                 role[2]) >>
          /\ ReadinessScore = <<score>>
    /\ industry_choice \in {IndustryOptions[k] : k \in 1..Len(IndustryOptions)}
    /\ pc = "call_suggest"
    /\ runs = 1
    /\ next_roles = <<>>
    /\ rule_actions = <<>>
    /\ llm_plans = <<>>
    /\ llm_resource = "unloaded"
    /\ plan_cache = {}
    /\ llm_calls = <<>>
    /\ df = <<>>
    /\ ret = None

SuggestCall ==
    /\ pc = "call_suggest"
    /\ ret' = suggest_next_role_and_actions(ScoredRow(1), industry_choice)
    /\ pc' = "suggested"
    /\ UNCHANGED <<df_raw, industry_choice, ReadinessScore, next_roles, rule_actions,
                   llm_plans, llm_resource, plan_cache, llm_calls, df, runs>>

SpecRules == InitRules /\ [][SuggestCall]_vars

\* ------------------------------------------------------------------ claims

\* The spellings of "yes" and "y" in any mix of cases.
YesSpellings == {"yes", "yeS", "yEs", "yES", "Yes", "YeS", "YEs", "YES", "y", "Y"}

Blanks == {"", " ", "  "}
\* The same between blanks.
PaddedYesSpellings == {a \o y \o b : a \in Blanks, y \in YesSpellings, b \in Blanks}

\* 10 * Scale times the score of the formula
\*   (0.3*(min(years,10)/10*5) + 0.2*tech + 0.2*soft + 0.2*perf + 0.1*leadership)/5*100
\* for a row of numbers: 3*min(years,10) + 4*(tech+soft+perf) + 2*leadership,
\* with leadership 5 for the texts of `yes` and 2 for every other.
FormulaScore(row, yes) ==
    LET years == row.YearsExperience.n
        capped == IF years < 10 * Scale THEN years ELSE 10 * Scale
        leadership == IF row.LeadershipInterest.s \in yes THEN 5 ELSE 2
    IN  30 * capped
        + 40 * (row.TechSkillRating.n + row.SoftSkillRating.n + row.PerformanceRating.n)
        + 20 * leadership * Scale

\* The returned score is the formula's value rounded to one decimal, and the
\* two examples give 100.0 and 4.0.
ScoreIsFormula(yes) ==
    pc = "scored" =>
        LET row == df_raw[1]
        IN  /\ ret.t = "num"
            /\ 2 * Abs(ret.n * Scale - FormulaScore(row, yes)) <= Scale
            /\ (/\ row.YearsExperience = Whole(10)
                /\ row.TechSkillRating = Whole(5)
                /\ row.SoftSkillRating = Whole(5)
                /\ row.PerformanceRating = Whole(5)
                /\ row.LeadershipInterest = Str("Yes")) => ret = Num(1000)
            /\ (/\ row.YearsExperience = Whole(0)
                /\ row.TechSkillRating = Whole(0)
                /\ row.SoftSkillRating = Whole(0)
                /\ row.PerformanceRating = Whole(0)
                /\ row.LeadershipInterest = Str("No")) => ret = Num(40)

\* C1: for every valid profile (years >= 0, the three ratings in 0..5, any
\* LeadershipInterest text) compute_readiness_score returns a number v with
\* 0 <= v <= 100.
C1_ScoreInRange ==
    pc = "scored" => (ret.t = "num" /\ 0 <= ret.n /\ ret.n <= 100 * 10)

\* A profile above the 10-year cap with full ratings scores exactly 100.0.
C1_Witness ==
    /\ pc = "scored"
    /\ df_raw[1].YearsExperience.n > 10 * Scale
    /\ ret = Num(100 * 10)

\* C2 as stated: the score is the weighted formula rounded to one decimal (at
\* most half a tenth away from it), with leadership 5 when the text is "yes"
\* or "y" in any case and 2 otherwise; 10 years with ratings 5, 5, 5 and "Yes"
\* give 100.0, and 0 years with ratings 0, 0, 0 and "No" give 4.0.
C2_ScoreFormula == ScoreIsFormula(YesSpellings)

\* C2, amended: the same, with leadership 5 when the text is "yes" or "y" in
\* any case once the blanks around it are stripped.
C2_ScoreFormulaStripped == ScoreIsFormula(PaddedYesSpellings)

\* A " Y " profile whose exact score is no whole number of tenths: it counted
\* as a yes and was rounded.
C2_Witness ==
    /\ pc = "scored"
    /\ df_raw[1].LeadershipInterest = Str(" Y ")
    /\ ret.n * Scale # FormulaScore(df_raw[1], PaddedYesSpellings)

\* The row suggest_next_role_and_actions was called on, and its fields.
CalledRow == ScoredRow(1)
CalledScore == ReadinessScore[1]
\* Leadership interest is true: the cell is "yes" or "y" in any case, with or
\* without blanks around it.
CalledLeadership ==
    /\ "LeadershipInterest" \in DOMAIN df_raw[1]
    /\ df_raw[1].LeadershipInterest.t = "str"
    /\ df_raw[1].LeadershipInterest.s \in PaddedYesSpellings
\* CurrentRole as the f-string shows it: "Professional" when the roster has no
\* such column, "nan" for an empty cell.
CalledRole ==
    IF "CurrentRole" \notin DOMAIN df_raw[1] THEN "Professional"
    ELSE IF df_raw[1].CurrentRole.t = "nan" THEN "nan"
    ELSE df_raw[1].CurrentRole.s

\* C3: the next role follows the decision table: score >= 80 with leadership
\* interest gives the team-lead role, score >= 80 without it "Senior " +
\* CurrentRole, 60 <= score < 80 "Mid-level " + CurrentRole, score < 60 the
\* upskill role ("Professional" for an absent CurrentRole); 79.9 and 60.0 are
\* mid-level, 80.0 is senior/lead, 59.9 is upskill.
C3_RoleTable ==
    (pc = "suggested" /\ CalledScore.t = "num") =>
        LET v == CalledScore.n
            lead == "Team Lead / Scrum Master / SAFe Team Coach"
            senior == "Senior " \o CalledRole
            mid == "Mid-level " \o CalledRole
            upskill == "Upskill & Consolidate Current Role"
        IN  /\ (v >= 800 /\ CalledLeadership) => ret.next_role = lead
            /\ (v >= 800 /\ ~CalledLeadership) => ret.next_role = senior
            /\ (600 <= v /\ v < 800) => ret.next_role = mid
            /\ v < 600 => ret.next_role = upskill
            /\ v = 799 => ret.next_role = mid
            /\ v = 800 => ret.next_role \in {lead, senior}
            /\ v = 599 => ret.next_role = upskill
            /\ v = 600 => ret.next_role = mid

\* A score of exactly 80.0 without leadership interest and without a
\* CurrentRole column.
C3_Witness ==
    /\ pc = "suggested"
    /\ CalledScore = Num(800)
    /\ ~CalledLeadership
    /\ "CurrentRole" \notin DOMAIN df_raw[1]
    /\ ret.next_role = "Senior Professional"

\* The position of the first occurrence of x in xs.
FirstIndex(xs, x) == CHOOSE i \in 1..Len(xs) : xs[i] = x /\ \A j \in 1..(i - 1) : xs[j] # x

\* C4: the returned action list holds no string twice, holds each string of
\* the concatenation of the fired rules in the order of the first occurrences
\* there, and a second run on the same input returns the same list.
C4_UniqueOrdered ==
    pc = "suggested" =>
        LET all == ExtendedActions(CalledRow, industry_choice)
            got == ret.actions
        IN  /\ \A i, j \in 1..Len(got) : got[i] = got[j] => i = j
            /\ {got[i] : i \in 1..Len(got)} = {all[i] : i \in 1..Len(all)}
            /\ LET first == [i \in 1..Len(got) |-> FirstIndex(all, got[i])]
               IN  \A i, j \in 1..Len(got) : i < j => first[i] < first[j]
            /\ suggest_next_role_and_actions(CalledRow, industry_choice).actions = got

\* Six groups fired at once and sixteen actions came back.
C4_Witness ==
    /\ pc = "suggested"
    /\ Len(ret.actions) = 16
    /\ Len(ExtendedActions(CalledRow, industry_choice)) = 16

\* The rule group of an action string: 1 score band, 2 domain, 3 leadership
\* flag, 4 Agile/SAFe, 5 career goal, 6 industry.
InRules(rules, a) ==
    \E k \in 1..Len(rules) : \E i \in 1..Len(rules[k].actions) : rules[k].actions[i] = a

Range(xs) == {xs[i] : i \in 1..Len(xs)}

RuleGroups ==
    [a \in UNION ({Range(LeadershipActions), Range(AgileRule.actions)}
                  \cup {Range(DomainRules[k].actions) : k \in 1..Len(DomainRules)}
                  \cup {Range(GoalRules[k].actions) : k \in 1..Len(GoalRules)}
                  \cup {Range(IndustryRules[k].actions) : k \in 1..Len(IndustryRules)}) |->
        IF InRules(DomainRules, a) THEN 2
        ELSE IF a \in Range(LeadershipActions) THEN 3
        ELSE IF InRules(<<AgileRule>>, a) THEN 4
        ELSE IF InRules(GoalRules, a) THEN 5
        ELSE 6]

GroupOf(a) == IF a \in DOMAIN RuleGroups THEN RuleGroups[a] ELSE 1

\* The actions of the example, without a career goal.
ExampleActions ==
    << "Take stretch assignments and mentor junior team members.",
       "Lead at least one initiative end-to-end this quarter.",
       "Show decision-making in cross-team topics.",
       "Pursue SQL, Power BI, or Tableau certifications.",
       "Deliver at least one analytics dashboard or report.",
       "Practice data storytelling for business stakeholders.",
       "Facilitate standups or retrospectives under guidance.",
       "Take responsibility for risk and dependency updates.",
       "Participate actively in PI planning preparation.",
       "Improve backlog refinement and estimation facilitation.",
       "Track team health metrics (velocity, WIP, predictability).",
       "Consider SAFe Scrum Master or POPM certification.",
       "Stay current with engineering best practices and new tools.",
       "Increase exposure to system design and scalability topics." >>

IsExample ==
    /\ CalledScore = Num(850)
    /\ df_raw[1].DomainInterest = Str("Data Analytics, Agile")
    /\ df_raw[1].LeadershipInterest = Str("Yes")
    /\ industry_choice = "Technology"

NotGoalAction(a) == GroupOf(a) # 5

\* C5: rules are additive and their actions come in rule-group order: score
\* band, domain groups, leadership flag, Agile/SAFe group, career-goal groups,
\* industry group.  For DomainInterest "Data Analytics, Agile", leadership
\* "Yes", score 85 and industry Technology the list holds the three score
\* actions, the data/analytics actions, the two leadership actions, the
\* Agile/SAFe actions and the two Technology actions, each once, in that order.
C5_GroupOrder ==
    pc = "suggested" =>
        LET got == ret.actions
            domain == PyLower(PyStr(df_raw[1].DomainInterest))
        IN  /\ LET group == [i \in 1..Len(got) |-> GroupOf(got[i])]
               IN  \A i, j \in 1..Len(got) : i < j => group[i] <= group[j]
            /\ \A k \in 1..Len(DomainRules) :
                  Fires(DomainRules[k], domain) =>
                      \A a \in 1..Len(DomainRules[k].actions) :
                          \E i \in 1..Len(got) : got[i] = DomainRules[k].actions[a]
            /\ IsExample => SelectSeq(got, NotGoalAction) = ExampleActions

\* The example with a career goal that fires too: sixteen actions.
C5_Witness ==
    /\ pc = "suggested"
    /\ IsExample
    /\ df_raw[1].CareerGoal = Str("Team Lead")
    /\ Len(ret.actions) = 16

\* The industry-specific strings among the returned actions.
IndustryPart(actions) == SelectSeq(actions, LAMBDA a : GroupOf(a) = 6)

\* C6: for every option of the industry selectbox exactly one branch of the
\* industry chain is selected, by exact match, and it contributes exactly 2
\* industry-specific actions to the action list.
C6_OneIndustryBranch ==
    /\ Len(IndustryOptions) = 8
    /\ \A k \in 1..Len(IndustryOptions) :
          Cardinality(MatchingBranches(IndustryOptions[k])) = 1
    /\ pc = "suggested" =>
          LET branch == IndustryRules[CHOOSE k \in MatchingBranches(industry_choice) : TRUE]
          IN  /\ Len(branch.actions) = 2
              /\ IndustryPart(ret.actions) = branch.actions
              /\ SubSeq(ret.actions, Len(ret.actions) - 1, Len(ret.actions)) = branch.actions

\* The last option of the selectbox selected the last branch of the chain.
C6_Witness ==
    /\ pc = "suggested"
    /\ industry_choice = "Public Sector/Government"
    /\ IndustryPart(ret.actions) =
          << "Understand procurement and governance processes.",
             "Document decisions clearly for audit and traceability." >>

\* What suggest_next_role_and_actions gives for output row i.
Suggested(i) ==
    suggest_next_role_and_actions(WithScore(df_raw[i], df[i].ReadinessScore),
                                  industry_choice)

\* The profile text of member i in this run.
MemberText(i) == ProfileText(ScoredRow(i), NextRole(ScoredRow(i)))

\* Score, next role and actions of output row i are those of input row i.
OwnResults(i) ==
    /\ df[i].row = df_raw[i]
    /\ df[i].ReadinessScore \in compute_readiness_score(df_raw[i])
    /\ df[i].SuggestedNextRole = Suggested(i).next_role
    /\ df[i].RecommendedActions = "* " \o BulletJoin(Suggested(i).actions)

\* C7: build_recommendations returns one row per input row, in input order:
\* the output has the length of the roster and its i-th row carries the score,
\* next role, actions and narrative of the i-th input member.
C7_RowsInOrder ==
    pc = "done" =>
        /\ Len(df) = Len(df_raw)
        /\ \A i \in 1..Len(df) :
              /\ OwnResults(i)
              /\ \E e \in plan_cache :
                    /\ e.key = <<MemberText(i), industry_choice>>
                    /\ e.text = df[i].LLMPlan

\* A roster of different members came back with different roles.
C7_Witness ==
    /\ pc = "done"
    /\ Len(df) >= 2
    /\ df_raw[1] # df_raw[2]
    /\ df[1].SuggestedNextRole # df[2].SuggestedNextRole
    /\ df[1].LLMPlan # df[2].LLMPlan

\* A narrative that is no generated text.
IsFailureText(text) == text \notin {PyStrip(g) : g \in GeneratedTexts}

\* The runs of generate_llm_plan_cached's body made for member i in this run.
OwnCalls(i) ==
    {a \in 1..Len(llm_calls) : llm_calls[a].run = runs /\ llm_calls[a].member = i}

\* C8 as stated: a narrative failure does not abort the batch, the narrative
\* of a member it fails for is one fixed placeholder, and no other member's
\* narrative changes: a member has a failure narrative only when the model is
\* unavailable or raised for that member.
C8_FixedPlaceholder ==
    pc = "done" =>
        /\ Len(df) = Len(df_raw)
        /\ \A i, j \in 1..Len(df) :
              (IsFailureText(df[i].LLMPlan) /\ IsFailureText(df[j].LLMPlan))
                  => df[i].LLMPlan = df[j].LLMPlan
        /\ \A i \in 1..Len(df) :
              IsFailureText(df[i].LLMPlan)
                  => \/ llm_resource = "none"
                     \/ \E a \in OwnCalls(i) : llm_calls[a].outcome.kind = "raised"

\* C8, amended: a narrative failure does not abort the batch (only scoring
\* can, before any narrative is asked for) and all rows come back; when
\* generation raises for a member the narrative is "LLM generation failed: "
\* followed by the exception's message, and without a model it is the fixed
\* not-available text; every member's score, next role and actions are its
\* own; a failure text reaches another member only under the same profile
\* text and industry, from the cache.
C8_FailureTexts ==
    /\ pc = "raised" =>
          (llm_plans = <<>> /\ \A a \in 1..Len(llm_calls) : llm_calls[a].run # runs)
    /\ pc = "done" =>
          /\ Len(df) = Len(df_raw)
          /\ \A i \in 1..Len(df) :
                /\ OwnResults(i)
                /\ \A a \in OwnCalls(i) :
                      /\ llm_calls[a].outcome.kind = "raised" =>
                            df[i].LLMPlan = "LLM generation failed: "
                                                \o llm_calls[a].outcome.text
                      /\ llm_calls[a].outcome.kind = "unavailable" =>
                            df[i].LLMPlan = LlmNotAvailable
                      /\ llm_calls[a].outcome.kind = "generated" =>
                            ~IsFailureText(df[i].LLMPlan)
                /\ IsFailureText(df[i].LLMPlan) =>
                      \E a \in 1..Len(llm_calls) :
                          /\ llm_calls[a].profile_text = MemberText(i)
                          /\ llm_calls[a].industry = industry_choice
                          /\ llm_calls[a].outcome.kind # "generated"

\* Generation raised for the first member and succeeded for the second.
C8_Witness ==
    /\ pc = "done"
    /\ Len(df) = 2
    /\ \E a \in OwnCalls(1) : llm_calls[a].outcome.kind = "raised"
    /\ df[1].LLMPlan = "LLM generation failed: out of memory"
    /\ ~IsFailureText(df[2].LLMPlan)

\* A numeric cell that is empty or no number, read as 0.
AsZero(c) == IF c.t = "num" THEN c ELSE Num(0)
ZeroFilled(row) == [k \in DOMAIN row |-> IF k \in NumericColumns THEN AsZero(row[k]) ELSE row[k]]

\* C9 as stated: scoring has no error outcome; a numeric field that is
\* missing, empty or no number counts as 0, the score is a number in [0,100]
\* and the batch goes on with every row.
C9_BadNumbersCountAsZero ==
    /\ pc # "raised"
    /\ pc \in {"loop", "done"} =>
          \A i \in 1..Len(df_raw) :
              /\ ReadinessScore[i].t = "num"
              /\ 0 <= ReadinessScore[i].n /\ ReadinessScore[i].n <= 100 * 10
              /\ ReadinessScore[i] \in compute_readiness_score(ZeroFilled(df_raw[i]))
    /\ pc = "done" => Len(df) = Len(df_raw)

\* C10: over the runs of one process the body of generate_llm_plan_cached, and
\* with it the language model, runs at most once per (profile_text, industry);
\* every narrative handed out is the one of the run made for its own key, the
\* failure and not-available texts included.
C10_OncePerKey ==
    /\ \A a, b \in 1..Len(llm_calls) :
          (/\ llm_calls[a].profile_text = llm_calls[b].profile_text
           /\ llm_calls[a].industry = llm_calls[b].industry) => a = b
    /\ \A i \in 1..Len(llm_plans) :
          \E a \in 1..Len(llm_calls) :
              /\ llm_calls[a].profile_text = MemberText(i)
              /\ llm_calls[a].industry = industry_choice
              /\ llm_plans[i] = PlanText(llm_calls[a].outcome)

\* The same member twice in the roster and a second run: four narratives, all
\* the failure text of the one call that was made.
C10_Witness ==
    /\ pc = "done"
    /\ runs = 2
    /\ Len(df) = 2
    /\ Len(llm_calls) = 1
    /\ llm_calls[1].outcome.kind = "raised"
    /\ llm_calls[1].run = 1
    /\ df[2].LLMPlan = PlanText(llm_calls[1].outcome)

====
